---- MODULE Spec2Model ----
(***************************************************************************)
(* Front end of the cernunnos compiler: Tokenizer::tokenize                *)
(* (src/src/tokenizer.cpp) and the recursive-descent Parser                *)
(* (src/src/parser.hpp), joined as in main (src/src/main.cpp).             *)
(*                                                                         *)
(* The tokenizer is a state machine with one action per branch of the      *)
(* main loop of tokenize.  The parser's productions are recursive          *)
(* operators over (token vector, read cursor); parse_prog's loop is the    *)
(* parser's state machine.  Cursors are 0-based as in the code.            *)
(***************************************************************************)
EXTENDS Integers, Sequences, FiniteSets, TLC

VARIABLES
    src,        \* Tokenizer::_src, a sequence of characters
    t_index,    \* Tokenizer::_index
    line_count, \* tokenize's local line_count
    lexTokens,  \* tokenize's local vector `tokens`
    lexState,   \* "none" (no Tokenizer built), "scan", "returned", "exit"
    lexErr,     \* the diagnostic written before exit(EXIT_FAILURE)
    tokens,     \* Parser::_tokens
    p_index,    \* Parser::_index
    prog,       \* parse_prog's local `prog.stmts`
    pState,     \* "idle" (no Parser built), "run", "returned", "exit"
    pErr        \* the diagnostic written by Parser::exit_with

vars == <<src, t_index, line_count, lexTokens, lexState, lexErr,
          tokens, p_index, prog, pState, pErr>>

lexVars == <<src, t_index, line_count, lexTokens, lexState, lexErr>>
parseVars == <<tokens, p_index, prog, pState, pErr>>

(***************************************************************************)
(* Tokens                                                                  *)
(***************************************************************************)
\* std::optional<std::string> without a value
NoVal == <<>>

\* std::optional<Token> without a value
NoTok == [type |-> "nullopt", line |-> 0, val |-> NoVal]

Token(type, line, val) == [type |-> type, line |-> line, val |-> val]

\* the result std::optional<int>{} of bin_prec
NoPrec == -1

\* bin_prec with a single precedence level for the four operators
bin_prec_flat(type) ==
    IF type \in {"PLUS", "MINUS", "STAR", "SLASH"} THEN 0 ELSE NoPrec

bin_prec(type) ==
    CASE type \in {"PLUS", "MINUS"} -> 0
      [] type \in {"STAR", "SLASH"} -> 1
      [] OTHER -> NoPrec

to_string(type) ==
    CASE type = "RETURN" -> "return value"
      [] type = "VAR" -> "var"
      [] type = "FUNC" -> "func"
      [] type = "IDENTIFIER" -> "identifier"
      [] type = "TYPE_INT" -> "int"
      [] type = "TYPE_CHAR" -> "char"
      [] type = "INTEGER_LITERAL" -> "integer literal"
      [] type = "CHAR_LITERAL" -> "char literal"
      [] type = "IF" -> "if"
      [] type = "ELIF" -> "elif"
      [] type = "ELSE" -> "else"
      [] type = "EQUAL" -> "="
      [] type = "COLON" -> ":"
      [] type = "COMMA" -> ","
      [] type = "LEFT_PARENTHESIS" -> "("
      [] type = "RIGHT_PARENTHESIS" -> ")"
      [] type = "LEFT_CURLY_BACKET" -> "{"
      [] type = "RIGHT_CURLY_BRACKET" -> "}"
      [] type = "PLUS" -> "+"
      [] type = "MINUS" -> "-"
      [] type = "STAR" -> "*"
      [] type = "SLASH" -> "/"
      [] OTHER -> ""

(***************************************************************************)
(* Tokenizer                                                               *)
(***************************************************************************)
\* <cctype> classes over the characters of the model
Letters ==
    {"a", "b", "c", "d", "e", "f", "g", "h", "i", "j", "k", "l", "m", "n",
     "o", "p", "q", "r", "s", "t", "u", "v", "w", "x", "y", "z"}
Digits == {"0", "1", "2", "3", "4", "5", "6", "7", "8", "9"}
isalpha(c) == c \in Letters
isdigit(c) == c \in Digits
isalnum(c) == isalpha(c) \/ isdigit(c)
isspace(c) == c \in {" ", "\n", "\t", "\r"}

\* std::optional<char> without a value
NoChar == "nullopt"

\* Tokenizer::peek
tpeek(s, i, offset) ==
    IF i + offset >= Len(s) THEN NoChar ELSE s[i + offset + 1]

\* the keyword table of the identifier branch; IDENTIFIER keeps its text
KeywordType(buf) ==
    CASE buf = <<"i", "n", "t">> -> "TYPE_INT"
      [] buf = <<"c", "h", "a", "r">> -> "TYPE_CHAR"
      [] buf = <<"v", "a", "r">> -> "VAR"
      [] buf = <<"f", "u", "n", "c">> -> "FUNC"
      [] buf = <<"r", "e", "t", "u", "r", "n">> -> "RETURN"
      [] buf = <<"i", "f">> -> "IF"
      [] buf = <<"e", "l", "i", "f">> -> "ELIF"
      [] buf = <<"e", "l", "s", "e">> -> "ELSE"
      [] OTHER -> "IDENTIFIER"

\* the single-character branches
PunctType(c) ==
    CASE c = "=" -> "EQUAL"
      [] c = ":" -> "COLON"
      [] c = "," -> "COMMA"
      [] c = "(" -> "LEFT_PARENTHESIS"
      [] c = ")" -> "RIGHT_PARENTHESIS"
      [] c = "{" -> "LEFT_CURLY_BACKET"
      [] c = "}" -> "RIGHT_CURLY_BRACKET"
      [] c = "+" -> "PLUS"
      [] c = "-" -> "MINUS"
      [] c = "*" -> "STAR"
      [] c = "/" -> "SLASH"
      [] OTHER -> "nullopt"

\* the scan state of one call of tokenize
LexSt(s, i, line, toks, st, err) ==
    [src |-> s, idx |-> i, line |-> line, toks |-> toks, st |-> st, err |-> err]

NoLexErr == [msg |-> "", line |-> 0]

RECURSIVE SkipLineComment(_, _), SkipBlockComment(_, _), ScanIdent(_, _),
          ScanDigits(_, _)

\* while (peek().has_value() && peek().value() != '\n') consume();
SkipLineComment(s, i) ==
    IF tpeek(s, i, 0) # NoChar /\ tpeek(s, i, 0) # "\n"
    THEN SkipLineComment(s, i + 1) ELSE i

\* the inner loop of the block-comment branch: stops before `*/` or at the end
SkipBlockComment(s, i) ==
    IF tpeek(s, i, 0) = NoChar THEN i
    ELSE IF tpeek(s, i, 0) = "*" /\ tpeek(s, i, 1) # NoChar /\ tpeek(s, i, 1) = "/"
    THEN i
    ELSE SkipBlockComment(s, i + 1)

\* while (peek().has_value() && (isalnum(..) || .. == '_')) buf.push_back(consume());
ScanIdent(s, i) ==
    IF tpeek(s, i, 0) # NoChar /\ (isalnum(tpeek(s, i, 0)) \/ tpeek(s, i, 0) = "_")
    THEN ScanIdent(s, i + 1) ELSE i

\* while (peek().has_value() && isdigit(..)) buf.push_back(consume());
ScanDigits(s, i) ==
    IF tpeek(s, i, 0) # NoChar /\ isdigit(tpeek(s, i, 0))
    THEN ScanDigits(s, i + 1) ELSE i

\* the characters consumed into buf: _src[from .. to-1], 0-based
Buf(s, from, to) == SubSeq(s, from + 1, to)

\* which branch of the loop body of tokenize is taken at the cursor
Branch(s, i) ==
    LET c == tpeek(s, i, 0)
        c1 == tpeek(s, i, 1)
    IN  CASE c = NoChar -> "return"
          [] c = "/" /\ c1 # NoChar /\ c1 = "/" -> "line_comment"
          [] c = "/" /\ c1 # NoChar /\ c1 = "*" -> "block_comment"
          [] isalpha(c) -> "identifier"
          [] isdigit(c) -> "integer"
          [] PunctType(c) # "nullopt" -> "punctuation"
          [] c = "'" -> "char_literal"
          [] c = "\n" -> "newline"
          [] isspace(c) -> "space"
          [] OTHER -> "invalid"

\* `//` branch
LineComment(st) ==
    [st EXCEPT !.idx = SkipLineComment(st.src, st.idx)]

\* a `/*` branch that consumes one character more after the closing `*/`
BlockComment_extra(st) ==
    LET j == SkipBlockComment(st.src, st.idx + 2)
        j1 == IF tpeek(st.src, j, 0) # NoChar THEN j + 1 ELSE j
        j2 == IF tpeek(st.src, j1, 0) # NoChar THEN j1 + 1 ELSE j1
        j3 == IF tpeek(st.src, j2, 0) # NoChar THEN j2 + 1 ELSE j2
    IN  [st EXCEPT !.idx = j3]

\* `/*` branch: two consumes, the inner loop, then up to two more consumes
BlockComment(st) ==
    LET j == SkipBlockComment(st.src, st.idx + 2)
        j1 == IF tpeek(st.src, j, 0) # NoChar THEN j + 1 ELSE j
        j2 == IF tpeek(st.src, j1, 0) # NoChar THEN j1 + 1 ELSE j1
    IN  [st EXCEPT !.idx = j2]

\* identifier / keyword branch
Identifier(st) ==
    LET j == ScanIdent(st.src, st.idx + 1)
        buf == Buf(st.src, st.idx, j)
        type == KeywordType(buf)
    IN  [st EXCEPT !.idx = j,
                   !.toks = Append(@, Token(type, st.line,
                               IF type = "IDENTIFIER" THEN buf ELSE NoVal))]

\* integer-literal branch
IntegerLiteral(st) ==
    LET j == ScanDigits(st.src, st.idx + 1)
    IN  [st EXCEPT !.idx = j,
                   !.toks = Append(@, Token("INTEGER_LITERAL", st.line,
                                            Buf(st.src, st.idx, j)))]

\* a single-character branch that consumes two characters
Punctuation_two(st) ==
    [st EXCEPT !.idx = @ + 2,
               !.toks = Append(@, Token(PunctType(tpeek(st.src, st.idx, 0)),
                                        st.line, NoVal))]

\* the branches for = : , ( ) { } + - * /
Punctuation(st) ==
    [st EXCEPT !.idx = @ + 1,
               !.toks = Append(@, Token(PunctType(tpeek(st.src, st.idx, 0)),
                                        st.line, NoVal))]

\* `'` branch: the token is pushed before the closing quote is looked for
CharLiteral(st) ==
    LET i1 == st.idx + 1
        c == tpeek(st.src, i1, 0)
    IN  IF c # NoChar /\ isalnum(c)
        THEN LET pushed == Append(st.toks, Token("CHAR_LITERAL", st.line, <<c>>))
                 q == tpeek(st.src, i1 + 1, 0)
             IN  IF q = NoChar \/ q # "'"
                 THEN [st EXCEPT !.idx = i1 + 1, !.toks = pushed, !.st = "exit",
                           !.err = [msg |-> "expected '", line |-> st.line]]
                 ELSE [st EXCEPT !.idx = i1 + 2, !.toks = pushed]
        ELSE [st EXCEPT !.idx = i1, !.st = "exit",
                  !.err = [msg |-> "expected a valid char", line |-> st.line]]

\* '\n' branch
Newline(st) == [st EXCEPT !.idx = @ + 1, !.line = @ + 1]

\* isspace branch
Space(st) == [st EXCEPT !.idx = @ + 1]

\* final else: invalid token
Invalid(st) ==
    [st EXCEPT !.st = "exit",
               !.err = [msg |-> "invalid token", line |-> st.line]]

\* after the loop: _index = 0; return tokens;
Return(st) == [st EXCEPT !.idx = 0, !.st = "returned"]

\* one iteration of while (peek().has_value()), or the return after it
LexStep(st) ==
    LET b == Branch(st.src, st.idx)
    IN  CASE b = "return" -> Return(st)
          [] b = "line_comment" -> LineComment(st)
          [] b = "block_comment" -> BlockComment(st)
          [] b = "identifier" -> Identifier(st)
          [] b = "integer" -> IntegerLiteral(st)
          [] b = "punctuation" -> Punctuation(st)
          [] b = "char_literal" -> CharLiteral(st)
          [] b = "newline" -> Newline(st)
          [] b = "space" -> Space(st)
          [] OTHER -> Invalid(st)

RECURSIVE LexRun(_)
\* Tokenizer::tokenize run from a scan state to its return or exit
LexRun(st) == IF st.st = "scan" THEN LexRun(LexStep(st)) ELSE st

\* Tokenizer(src).tokenize()
tokenize(s) == LexRun(LexSt(s, 0, 1, <<>>, "scan", NoLexErr))

\* the tokenizer's variables as a scan state, and back
LexCur == LexSt(src, t_index, line_count, lexTokens, lexState, lexErr)

LexSet(st) ==
    /\ t_index' = st.idx
    /\ line_count' = st.line
    /\ lexTokens' = st.toks
    /\ lexState' = st.st
    /\ lexErr' = st.err
    /\ UNCHANGED src

\* tokenize, `//` branch
LexLineComment ==
    /\ lexState = "scan"
    /\ Branch(src, t_index) = "line_comment"
    /\ LexSet(LineComment(LexCur))
    /\ UNCHANGED parseVars

\* tokenize, `/*` branch
LexBlockComment ==
    /\ lexState = "scan"
    /\ Branch(src, t_index) = "block_comment"
    /\ LexSet(BlockComment(LexCur))
    /\ UNCHANGED parseVars

\* tokenize, isalpha branch
LexIdentifier ==
    /\ lexState = "scan"
    /\ Branch(src, t_index) = "identifier"
    /\ LexSet(Identifier(LexCur))
    /\ UNCHANGED parseVars

\* tokenize, isdigit branch
LexIntegerLiteral ==
    /\ lexState = "scan"
    /\ Branch(src, t_index) = "integer"
    /\ LexSet(IntegerLiteral(LexCur))
    /\ UNCHANGED parseVars

\* tokenize, one of the single-character branches
LexPunctuation ==
    /\ lexState = "scan"
    /\ Branch(src, t_index) = "punctuation"
    /\ LexSet(Punctuation(LexCur))
    /\ UNCHANGED parseVars

\* tokenize, quote branch
LexCharLiteral ==
    /\ lexState = "scan"
    /\ Branch(src, t_index) = "char_literal"
    /\ LexSet(CharLiteral(LexCur))
    /\ UNCHANGED parseVars

\* tokenize, newline branch
LexNewline ==
    /\ lexState = "scan"
    /\ Branch(src, t_index) = "newline"
    /\ LexSet(Newline(LexCur))
    /\ UNCHANGED parseVars

\* tokenize, isspace branch
LexSpace ==
    /\ lexState = "scan"
    /\ Branch(src, t_index) = "space"
    /\ LexSet(Space(LexCur))
    /\ UNCHANGED parseVars

\* tokenize, final else
LexInvalid ==
    /\ lexState = "scan"
    /\ Branch(src, t_index) = "invalid"
    /\ LexSet(Invalid(LexCur))
    /\ UNCHANGED parseVars

\* tokenize, the loop ends: return tokens
LexReturn ==
    /\ lexState = "scan"
    /\ Branch(src, t_index) = "return"
    /\ LexSet(Return(LexCur))
    /\ UNCHANGED parseVars

(***************************************************************************)
(* Parser: types and cursor primitives                                     *)
(***************************************************************************)
\* a to_variable_type with a second concrete tag, given to every token that
\* is not an integer literal
to_variable_type_char(type) ==
    IF type = "INTEGER_LITERAL" THEN "INT" ELSE "CHAR"

\* to_variable_type (parser.hpp 27-36)
to_variable_type(type) ==
    IF type = "INTEGER_LITERAL" THEN "INT" ELSE "NONE"

\* to_string(VarType)
type_to_string(t) ==
    CASE t = "NONE" -> ""
      [] t = "INT" -> "int"
      [] OTHER -> "auto"

\* Parser::peek.  _index + offset is computed in size_t: with offset -1 at
\* _index 0 the sum wraps to SIZE_MAX, which is >= _tokens.size().
peek(toks, i, offset) ==
    IF i + offset < 0 \/ i + offset >= Len(toks)
    THEN NoTok
    ELSE toks[i + offset + 1]

has_value(t) == t # NoTok

peek_type(toks, i, type, offset) ==
    has_value(peek(toks, i, offset)) /\ peek(toks, i, offset).type = type

NoNode == [k |-> "none"]
NoErr == [tmpl |-> "", msg |-> "", line |-> 0, bad_access |-> FALSE]

\* results of a production: a node, an empty optional, or exit(EXIT_FAILURE)
Ret(node, i) == [st |-> "node", node |-> node, idx |-> i, err |-> NoErr]
Absent(i) == [st |-> "absent", node |-> NoNode, idx |-> i, err |-> NoErr]

\* Parser::exit_with: the line printed is that of peek(), or of peek(-1) when
\* there is no next token; peek(-1).value() on an empty optional throws
\* std::bad_optional_access (bad_access), and no line is printed.
\* the line taken from peek() whether or not it holds a token
exit_with_line_next(toks, i) == peek(toks, i, 0).line

exit_with_line(toks, i) ==
    IF has_value(peek(toks, i, 0)) THEN peek(toks, i, 0).line
    ELSE peek(toks, i, -1).line

exit_with(toks, i, err_msg, template_msg) ==
    [st |-> "exit", node |-> NoNode, idx |-> i,
     err |-> [tmpl |-> template_msg, msg |-> err_msg,
              line |-> exit_with_line(toks, i),
              bad_access |-> ~has_value(peek(toks, i, 0))
                             /\ ~has_value(peek(toks, i, -1))]]

\* a try_consume_err that goes on without the token when it is not there
try_consume_err_lenient(toks, i, type) ==
    IF has_value(peek(toks, i, 0)) /\ peek(toks, i, 0).type = type
    THEN Ret(toks[i + 1], i + 1)
    ELSE Ret(NoTok, i)

\* Parser::try_consume_err: the token is consumed, or exit_with(to_string(type))
try_consume_err(toks, i, type) ==
    IF has_value(peek(toks, i, 0)) /\ peek(toks, i, 0).type = type
    THEN Ret(toks[i + 1], i + 1)
    ELSE exit_with(toks, i, to_string(type), "missing")

\* Parser::try_consume
try_consume(toks, i, type) ==
    IF has_value(peek(toks, i, 0)) /\ peek(toks, i, 0).type = type
    THEN Ret(toks[i + 1], i + 1)
    ELSE Absent(i)

(***************************************************************************)
(* AST nodes (namespace Node)                                              *)
(***************************************************************************)
TermIntegerLiteral(tok) == [k |-> "TermIntegerLiteral", int_lit |-> tok]
TermIdentifier(tok) == [k |-> "TermIdentifier", ident |-> tok]
TermParen(expr) == [k |-> "TermParen", expr |-> expr]
Term(var, type) == [k |-> "Term", var |-> var, type |-> type]
BinExpr(op, lside, rside) == [k |-> op, lside |-> lside, rside |-> rside]
Expr(var, type) == [k |-> "Expr", var |-> var, type |-> type]
\* Node::Expr built from its variant alone: `type` keeps its default
\* member initializer VarType::NONE
ExprOfVar(var) == Expr(var, "NONE")
Scope(stmts) == [k |-> "Scope", stmts |-> stmts]
StmtReturn(expr) == [k |-> "StmtReturn", expr |-> expr]
StmtVar(tok, expr) == [k |-> "StmtVar", identifier |-> tok, expr |-> expr]
StmtVarAssign(tok, expr) == [k |-> "StmtVarAssign", ident |-> tok, expr |-> expr]
\* std::optional<IfPred *> without a value
NoPred == [k |-> "nullopt"]
IfPredElif(expr, scope, pred) ==
    [k |-> "IfPredElif", expr |-> expr, scope |-> scope, pred |-> pred]
IfPredElse(scope) == [k |-> "IfPredElse", scope |-> scope]
StmtIf(expr, scope, pred) ==
    [k |-> "StmtIf", expr |-> expr, scope |-> scope, pred |-> pred]

\* the BinExpr alternative chosen for an operator token (parse_expr)
BinKind(type) ==
    CASE type = "PLUS" -> "BinExprAdd"
      [] type = "MINUS" -> "BinExprSub"
      [] type = "STAR" -> "BinExprMulti"
      [] type = "SLASH" -> "BinExprDiv"
      [] OTHER -> "assert_false"

(***************************************************************************)
(* Parser: productions.  Each operator takes the token vector and the      *)
(* cursor at the call and yields the node (or empty optional, or exit)     *)
(* with the cursor after the call.                                         *)
(***************************************************************************)
\* call(f, toks, i, arg): the call of member function f at cursor i; arg is
\* min_prec for parse_expr, the loop's locals for the two loops, unused else.
\* What follows a call in the code is an operator of its own that takes the
\* call's result.
RECURSIVE call(_, _, _, _)

\* parse_term, parenthesis branch, after try_consume_err(RIGHT_PARENTHESIS)
term_paren_close(expr, close) ==
    IF close.st = "exit" THEN close
    ELSE Ret(Term(TermParen(expr.node), expr.node.type), close.idx)

\* parse_term, parenthesis branch, after parse_expr()
term_paren(toks, expr) ==
    IF expr.st = "exit" THEN expr
    ELSE IF expr.st = "absent"
    THEN exit_with(toks, expr.idx, "expression", "missing")
    ELSE term_paren_close(expr,
             try_consume_err(toks, expr.idx, "RIGHT_PARENTHESIS"))

\* a parse_term that consumes the token it does not recognise before it
\* returns nothing
parse_term_skip(toks, i) ==
    IF peek_type(toks, i, "INTEGER_LITERAL", 0)
    THEN Ret(Term(TermIntegerLiteral(toks[i + 1]), "INT"), i + 1)
    ELSE IF peek_type(toks, i, "IDENTIFIER", 0)
    THEN Ret(Term(TermIdentifier(toks[i + 1]),
                  to_variable_type(toks[i + 1].type)), i + 1)
    ELSE IF peek_type(toks, i, "LEFT_PARENTHESIS", 0)
    THEN term_paren(toks, call("parse_expr", toks, i + 1, 0))
    ELSE Absent(IF has_value(peek(toks, i, 0)) THEN i + 1 ELSE i)

\* Parser::parse_term
parse_term(toks, i) ==
    IF peek_type(toks, i, "INTEGER_LITERAL", 0)
    THEN Ret(Term(TermIntegerLiteral(toks[i + 1]), "INT"), i + 1)
    ELSE IF peek_type(toks, i, "IDENTIFIER", 0)
    THEN Ret(Term(TermIdentifier(toks[i + 1]),
                  to_variable_type(toks[i + 1].type)), i + 1)
    ELSE IF peek_type(toks, i, "LEFT_PARENTHESIS", 0)
    THEN term_paren(toks, call("parse_expr", toks, i + 1, 0))
    ELSE Absent(i)

\* the fold of parse_expr's loop body (parser.hpp 299-327): the left operand
\* is a fresh Expr holding the old variant, the root keeps its type tag
fold_bin_expr(expr, op, expr_rside) ==
    Expr(BinExpr(BinKind(op.type), ExprOfVar(expr.var), expr_rside), expr.type)

\* the operand check of parse_expr's loop body (parser.hpp 291-293)
type_mismatch(ltype, rtype) ==
    ltype # "NONE" /\ rtype # "NONE" /\ ltype # rtype

\* the right operand parsed at the operator's own level
next_min_prec_same(prec) == prec

\* the minimum precedence handed to the right operand (parser.hpp 286)
next_min_prec(prec) == prec + 1

\* parse_expr's loop body after the right operand is parsed, and the next
\* iteration
expr_loop_rside(toks, expr, min_prec, op, expr_rside) ==
    IF expr_rside.st = "exit" THEN expr_rside
    ELSE IF expr_rside.st = "absent"
    THEN exit_with(toks, expr_rside.idx, "expression", "missing")
    ELSE IF type_mismatch(expr.type, expr_rside.node.type)
    THEN exit_with(toks, expr_rside.idx,
                   type_to_string(expr.type) \o to_string(op.type)
                     \o type_to_string(expr_rside.node.type),
                   "wrong operation :")
    ELSE call("parse_expr_loop", toks, expr_rside.idx,
              [expr |-> fold_bin_expr(expr, op, expr_rside.node),
               min_prec |-> min_prec])

\* the while (true) loop of Parser::parse_expr, entered with `expr` built
parse_expr_loop(toks, i, expr, min_prec) ==
    LET curr_tok == peek(toks, i, 0)
        prec == bin_prec(curr_tok.type)
    IN  IF ~has_value(curr_tok) THEN Ret(expr, i)
        ELSE IF prec = NoPrec \/ prec < min_prec THEN Ret(expr, i)
        ELSE expr_loop_rside(toks, expr, min_prec, toks[i + 1],
                 call("parse_expr", toks, i + 1, next_min_prec(prec)))

\* parse_expr after parse_term()
expr_lterm(toks, lterm, min_prec) ==
    IF lterm.st = "exit" THEN lterm
    ELSE IF lterm.st = "absent" THEN Absent(lterm.idx)
    ELSE parse_expr_loop(toks, lterm.idx,
                         Expr(lterm.node, lterm.node.type), min_prec)

\* Parser::parse_expr
parse_expr(toks, i, min_prec) ==
    expr_lterm(toks, call("parse_term", toks, i, 0), min_prec)

\* parse_scope after try_consume_err(RIGHT_CURLY_BRACKET)
scope_close(stmts, close) ==
    IF close.st = "exit" THEN close ELSE Ret(Scope(stmts), close.idx)

\* parse_scope's loop after parse_stmt()
scope_loop_stmt(toks, stmts, stmt) ==
    IF stmt.st = "exit" THEN stmt
    ELSE IF stmt.st = "node"
    THEN call("parse_scope_loop", toks, stmt.idx, Append(stmts, stmt.node))
    ELSE scope_close(stmts,
             try_consume_err(toks, stmt.idx, "RIGHT_CURLY_BRACKET"))

\* the while (auto stmt = parse_stmt()) loop of Parser::parse_scope and the
\* closing brace after it
parse_scope_loop(toks, i, stmts) ==
    scope_loop_stmt(toks, stmts, call("parse_stmt", toks, i, 0))

\* Parser::parse_scope
parse_scope(toks, i) ==
    IF try_consume(toks, i, "LEFT_CURLY_BACKET").st = "absent"
    THEN Absent(i)
    ELSE parse_scope_loop(toks, i + 1, <<>>)

\* a `pred` field that is always left empty
PredOf_empty(pred) == NoPred

\* the optional<IfPred *> stored in a `pred` field
PredOf(pred) == IF pred.st = "node" THEN pred.node ELSE NoPred

\* parse_if_pred, elif branch, after the recursive parse_if_pred()
elif_pred(expr, scope, pred) ==
    IF pred.st = "exit" THEN pred
    ELSE Ret(IfPredElif(expr.node, scope.node, PredOf(pred)), pred.idx)

\* parse_if_pred, elif branch, after parse_scope()
elif_scope(toks, expr, scope) ==
    IF scope.st = "exit" THEN scope
    ELSE IF scope.st = "absent"
    THEN exit_with(toks, scope.idx, "scope", "missing")
    ELSE elif_pred(expr, scope, call("parse_if_pred", toks, scope.idx, 0))

\* parse_if_pred, elif branch, after try_consume_err(RIGHT_PARENTHESIS)
elif_close(toks, expr, close) ==
    IF close.st = "exit" THEN close
    ELSE elif_scope(toks, expr, call("parse_scope", toks, close.idx, 0))

\* parse_if_pred, elif branch, after parse_expr()
elif_expr(toks, expr) ==
    IF expr.st = "exit" THEN expr
    ELSE IF expr.st = "absent"
    THEN exit_with(toks, expr.idx, "expression", "missing")
    ELSE elif_close(toks, expr,
             try_consume_err(toks, expr.idx, "RIGHT_PARENTHESIS"))

\* parse_if_pred, elif branch, after try_consume_err(LEFT_PARENTHESIS)
elif_open(toks, open) ==
    IF open.st = "exit" THEN open
    ELSE elif_expr(toks, call("parse_expr", toks, open.idx, 0))

\* parse_if_pred, else branch, after parse_scope()
else_scope(toks, scope) ==
    IF scope.st = "exit" THEN scope
    ELSE IF scope.st = "absent"
    THEN exit_with(toks, scope.idx, "scope", "missing")
    ELSE Ret(IfPredElse(scope.node), scope.idx)

\* Parser::parse_if_pred
parse_if_pred(toks, i) ==
    IF try_consume(toks, i, "ELIF").st = "node"
    THEN elif_open(toks, try_consume_err(toks, i + 1, "LEFT_PARENTHESIS"))
    ELSE IF try_consume(toks, i, "ELSE").st = "node"
    THEN else_scope(toks, call("parse_scope", toks, i + 1, 0))
    ELSE Absent(i)

\* parse_expr() or exit_with(what): the expression of a return, a
\* declaration, an assignment or an if
expr_or_exit(toks, e, what) ==
    IF e.st = "absent" THEN exit_with(toks, e.idx, what, "missing") ELSE e

stmt_expr(toks, i, what) ==
    expr_or_exit(toks, call("parse_expr", toks, i, 0), what)

\* parse_stmt, if branch, after parse_if_pred()
if_pred(expr, scope, pred) ==
    IF pred.st = "exit" THEN pred
    ELSE Ret(StmtIf(expr.node, scope.node, PredOf(pred)), pred.idx)

\* parse_stmt, if branch, after parse_scope()
if_scope(toks, expr, scope) ==
    IF scope.st = "exit" THEN scope
    ELSE IF scope.st = "absent"
    THEN exit_with(toks, scope.idx, "scope", "missing")
    ELSE if_pred(expr, scope, call("parse_if_pred", toks, scope.idx, 0))

\* parse_stmt, if branch, after try_consume_err(RIGHT_PARENTHESIS)
if_close(toks, expr, close) ==
    IF close.st = "exit" THEN close
    ELSE if_scope(toks, expr, call("parse_scope", toks, close.idx, 0))

\* parse_stmt, if branch, after parse_expr()
if_expr(toks, expr) ==
    IF expr.st = "exit" THEN expr
    ELSE if_close(toks, expr,
             try_consume_err(toks, expr.idx, "RIGHT_PARENTHESIS"))

\* parse_stmt, if branch, after try_consume_err(LEFT_PARENTHESIS)
if_open(toks, open) ==
    IF open.st = "exit" THEN open
    ELSE if_expr(toks, stmt_expr(toks, open.idx, "expression"))

\* parse_stmt, return branch, after parse_expr()
stmt_return(ne) ==
    IF ne.st = "exit" THEN ne ELSE Ret(StmtReturn(ne.node), ne.idx)

\* parse_stmt, var branch, after parse_expr()
stmt_var(identifier, e) ==
    IF e.st = "exit" THEN e ELSE Ret(StmtVar(identifier, e.node), e.idx)

\* parse_stmt, assignment branch, after parse_expr()
stmt_var_assign(ident, expr) ==
    IF expr.st = "exit" THEN expr
    ELSE Ret(StmtVarAssign(ident, expr.node), expr.idx)

\* parse_stmt, scope branch, after parse_scope(): the Stmt holds the Scope
stmt_scope(toks, scope) ==
    IF scope.st = "absent"
    THEN exit_with(toks, scope.idx, "scope", "missing")
    ELSE scope

\* Parser::parse_stmt
parse_stmt(toks, i) ==
    IF ~has_value(peek(toks, i, 0)) THEN Absent(i)
    ELSE IF peek_type(toks, i, "RETURN", 0)
    THEN stmt_return(stmt_expr(toks, i + 1, "return value"))
    ELSE IF peek_type(toks, i, "VAR", 0) /\ peek_type(toks, i, "IDENTIFIER", 1)
            /\ peek_type(toks, i, "EQUAL", 2)
    THEN stmt_var(toks[i + 2], stmt_expr(toks, i + 3, "expression"))
    ELSE IF peek_type(toks, i, "IDENTIFIER", 0) /\ peek_type(toks, i, "EQUAL", 1)
    THEN stmt_var_assign(toks[i + 1], stmt_expr(toks, i + 2, "expression"))
    ELSE IF peek_type(toks, i, "LEFT_CURLY_BACKET", 0)
    THEN stmt_scope(toks, call("parse_scope", toks, i, 0))
    ELSE IF try_consume(toks, i, "IF").st = "node"
    THEN if_open(toks, try_consume_err(toks, i + 1, "LEFT_PARENTHESIS"))
    ELSE Absent(i)

call(f, toks, i, arg) ==
    CASE f = "parse_term" -> parse_term(toks, i)
      [] f = "parse_expr" -> parse_expr(toks, i, arg)
      [] f = "parse_expr_loop" -> parse_expr_loop(toks, i, arg.expr, arg.min_prec)
      [] f = "parse_scope" -> parse_scope(toks, i)
      [] f = "parse_scope_loop" -> parse_scope_loop(toks, i, arg)
      [] f = "parse_if_pred" -> parse_if_pred(toks, i)
      [] f = "parse_stmt" -> parse_stmt(toks, i)

(***************************************************************************)
(* Parser: parse_prog as a state machine, one step per loop iteration      *)
(***************************************************************************)
\* the statement put in front of prog.stmts instead of pushed at its back
ProgPushStmt_front ==
    /\ pState = "run"
    /\ has_value(peek(tokens, p_index, 0))
    /\ \E stmt \in {parse_stmt(tokens, p_index)} :
           /\ stmt.st = "node"
           /\ prog' = <<stmt.node>> \o prog
           /\ p_index' = stmt.idx
    /\ UNCHANGED <<tokens, pState, pErr>>
    /\ UNCHANGED lexVars

\* parse_prog, loop body: parse_stmt() yields a statement, which is pushed
ProgPushStmt ==
    /\ pState = "run"
    /\ has_value(peek(tokens, p_index, 0))
    /\ \E stmt \in {parse_stmt(tokens, p_index)} :
           /\ stmt.st = "node"
           /\ prog' = Append(prog, stmt.node)
           /\ p_index' = stmt.idx
    /\ UNCHANGED <<tokens, pState, pErr>>
    /\ UNCHANGED lexVars

\* parse_prog, loop body: a production called by parse_stmt() exits
ProgStmtExit ==
    /\ pState = "run"
    /\ has_value(peek(tokens, p_index, 0))
    /\ \E stmt \in {parse_stmt(tokens, p_index)} :
           /\ stmt.st = "exit"
           /\ pState' = "exit"
           /\ pErr' = stmt.err
           /\ p_index' = stmt.idx
    /\ UNCHANGED <<tokens, prog>>
    /\ UNCHANGED lexVars

\* parse_prog, loop body: parse_stmt() is empty, exit_with("statement")
ProgNoStmt ==
    /\ pState = "run"
    /\ has_value(peek(tokens, p_index, 0))
    /\ \E stmt \in {parse_stmt(tokens, p_index)} :
           /\ stmt.st = "absent"
           /\ pState' = "exit"
           /\ pErr' = exit_with(tokens, stmt.idx, "statement", "missing").err
           /\ p_index' = stmt.idx
    /\ UNCHANGED <<tokens, prog>>
    /\ UNCHANGED lexVars

\* parse_prog: no token is left, the program is returned
ProgReturn ==
    /\ pState = "run"
    /\ ~has_value(peek(tokens, p_index, 0))
    /\ pState' = "returned"
    /\ UNCHANGED <<tokens, p_index, prog, pErr>>
    /\ UNCHANGED lexVars

(***************************************************************************)
(* Inputs of the parser                                                    *)
(***************************************************************************)
\* longest token vector of arbitrary kinds
MaxRawLen == 3
\* longest operator/operand run after `return`
MaxExprLen == 5
\* most statement-level pieces joined into one token vector
MaxPieces == 3

SeqsUpTo(S, n) == UNION {[1..m -> S] : m \in 0..n}

RECURSIVE Flatten(_)
Flatten(ss) == IF ss = <<>> THEN <<>> ELSE Head(ss) \o Flatten(Tail(ss))

\* token kinds the parser tells apart; COMMA stands for every kind no
\* production accepts (FUNC, TYPE_INT, TYPE_CHAR, CHAR_LITERAL, COLON, COMMA)
RawKinds ==
    {"RETURN", "VAR", "IDENTIFIER", "INTEGER_LITERAL", "EQUAL",
     "LEFT_PARENTHESIS", "RIGHT_PARENTHESIS", "LEFT_CURLY_BACKET",
     "RIGHT_CURLY_BRACKET", "PLUS", "STAR", "IF", "ELIF", "ELSE", "COMMA"}

BinOps == {"PLUS", "MINUS", "STAR", "SLASH"}
SimpleTerms == {"INTEGER_LITERAL", "IDENTIFIER"}

\* operands of the three-operand inputs: literals, identifiers, parenthesised
TermPieces ==
    {<<"INTEGER_LITERAL">>, <<"IDENTIFIER">>,
     <<"LEFT_PARENTHESIS", "IDENTIFIER", "RIGHT_PARENTHESIS">>,
     <<"LEFT_PARENTHESIS", "INTEGER_LITERAL", "PLUS", "IDENTIFIER",
       "RIGHT_PARENTHESIS">>}

\* grammatical statements
StmtPieces ==
    {<<"RETURN", "INTEGER_LITERAL">>,
     <<"IDENTIFIER", "EQUAL", "INTEGER_LITERAL", "STAR", "IDENTIFIER">>,
     <<"VAR", "IDENTIFIER", "EQUAL", "IDENTIFIER">>,
     <<"LEFT_CURLY_BACKET", "RIGHT_CURLY_BRACKET">>,
     <<"LEFT_CURLY_BACKET", "RETURN", "IDENTIFIER", "IDENTIFIER", "EQUAL",
       "INTEGER_LITERAL", "RIGHT_CURLY_BRACKET">>,
     <<"IF", "LEFT_PARENTHESIS", "IDENTIFIER", "RIGHT_PARENTHESIS",
       "LEFT_CURLY_BACKET", "RIGHT_CURLY_BRACKET">>,
     <<"IF", "LEFT_PARENTHESIS", "INTEGER_LITERAL", "RIGHT_PARENTHESIS",
       "LEFT_CURLY_BACKET", "RETURN", "IDENTIFIER", "RIGHT_CURLY_BRACKET",
       "ELSE", "LEFT_CURLY_BACKET", "RIGHT_CURLY_BRACKET">>}

\* clauses and fragments that follow an `if (x) {}`
ClausePieces ==
    {<<"ELIF", "LEFT_PARENTHESIS", "IDENTIFIER", "RIGHT_PARENTHESIS",
       "LEFT_CURLY_BACKET", "RIGHT_CURLY_BRACKET">>,
     <<"ELSE", "LEFT_CURLY_BACKET", "RIGHT_CURLY_BRACKET">>,
     <<"ELIF", "LEFT_PARENTHESIS", "IDENTIFIER", "RIGHT_PARENTHESIS">>,
     <<"ELSE">>,
     <<"RIGHT_CURLY_BRACKET">>,
     <<"LEFT_CURLY_BACKET", "IF", "LEFT_PARENTHESIS", "IDENTIFIER",
       "RIGHT_PARENTHESIS", "LEFT_CURLY_BACKET", "RIGHT_CURLY_BRACKET">>,
     <<"RETURN", "IDENTIFIER">>}

IfHead ==
    <<"IF", "LEFT_PARENTHESIS", "IDENTIFIER", "RIGHT_PARENTHESIS",
      "LEFT_CURLY_BACKET", "RIGHT_CURLY_BRACKET">>

RawInputs == SeqsUpTo(RawKinds, MaxRawLen)

ExprInputs ==
    {<<"RETURN">> \o e : e \in SeqsUpTo(SimpleTerms \cup BinOps, MaxExprLen)}

TwoTermInputs ==
    {<<"RETURN">> \o t1 \o <<op>> \o t2 :
        t1 \in TermPieces, t2 \in TermPieces, op \in BinOps}

ThreeTermInputs ==
    {<<"RETURN">> \o t1 \o <<op1>> \o t2 \o <<op2>> \o t3 :
        t1 \in TermPieces, t2 \in TermPieces, t3 \in TermPieces,
        op1 \in BinOps, op2 \in BinOps}

\* an `if (Expr)` followed by at most one token of any kind
IfCondInputs ==
    {<<"IF", "LEFT_PARENTHESIS">> \o e \o <<"RIGHT_PARENTHESIS">> \o t :
        e \in TermPieces, t \in SeqsUpTo(RawKinds, 1)}

StmtSeqs == SeqsUpTo(StmtPieces, MaxPieces)
StmtInputs == {Flatten(ps) : ps \in StmtSeqs}

IfInputs == {IfHead \o Flatten(ps) : ps \in SeqsUpTo(ClausePieces, MaxPieces)}

ParserInputs ==
    RawInputs \cup ExprInputs \cup TwoTermInputs \cup ThreeTermInputs
        \cup StmtInputs \cup IfInputs \cup IfCondInputs

\* a token of the given kind as the tokenizer builds it; every token of a
\* directly built vector sits on its own line
MkToken(kind, line) ==
    Token(kind, line,
          IF kind = "IDENTIFIER" THEN <<"a">>
          ELSE IF kind = "INTEGER_LITERAL" THEN <<"1">>
          ELSE NoVal)

MkTokens(kinds) == [n \in 1..Len(kinds) |-> MkToken(kinds[n], n)]

Kinds(toks) == [n \in 1..Len(toks) |-> toks[n].type]

\* Parser::Parser(std::vector<Token>) on a token vector, no Tokenizer built
InitParser ==
    /\ tokens \in {MkTokens(ks) : ks \in ParserInputs}
    /\ p_index = 0
    /\ prog = <<>>
    /\ pState = "run"
    /\ pErr = NoErr
    /\ src = <<>>
    /\ t_index = 0
    /\ line_count = 1
    /\ lexTokens = <<>>
    /\ lexState = "none"
    /\ lexErr = NoLexErr

\* most source pieces joined into one source text
MaxSrcPieces == 4

\* pieces of source text: a letter, a digit, operators, comment delimiters,
\* white space, a quote, a character that starts no token
SrcPieces ==
    {<<"a">>, <<"1">>, <<"=">>, <<"/">>, <<"/", "*">>, <<"*", "/">>,
     <<"\n">>, <<" ">>, <<"'">>, <<"#">>}

Sources == {Flatten(ps) : ps \in SeqsUpTo(SrcPieces, MaxSrcPieces)}

\* main: Tokenizer tokenizer(contents), before tokenize() and before the
\* Parser is built
InitMain ==
    /\ src \in Sources
    /\ t_index = 0
    /\ line_count = 1
    /\ lexTokens = <<>>
    /\ lexState = "scan"
    /\ lexErr = NoLexErr
    /\ tokens = <<>>
    /\ p_index = 0
    /\ prog = <<>>
    /\ pState = "idle"
    /\ pErr = NoErr

\* main: Parser parser(std::move(tokens)) and the call of parse_prog()
MainParser ==
    /\ lexState = "returned"
    /\ pState = "idle"
    /\ tokens' = lexTokens
    /\ pState' = "run"
    /\ UNCHANGED <<p_index, prog, pErr>>
    /\ UNCHANGED lexVars

Init == InitMain \/ InitParser

Next ==
    \/ LexLineComment
    \/ LexBlockComment
    \/ LexIdentifier
    \/ LexIntegerLiteral
    \/ LexPunctuation
    \/ LexCharLiteral
    \/ LexNewline
    \/ LexSpace
    \/ LexInvalid
    \/ LexReturn
    \/ MainParser
    \/ ProgPushStmt
    \/ ProgStmtExit
    \/ ProgNoStmt
    \/ ProgReturn

Spec == Init /\ [][Next]_vars

\* the steps of Tokenizer::tokenize
LexNext ==
    \/ LexLineComment
    \/ LexBlockComment
    \/ LexIdentifier
    \/ LexIntegerLiteral
    \/ LexPunctuation
    \/ LexCharLiteral
    \/ LexNewline
    \/ LexSpace
    \/ LexInvalid
    \/ LexReturn

\* main's run on a source text.  tokenize is a sequential loop: once called
\* it keeps taking its next step until it returns or exits
SpecLive == InitMain /\ [][Next]_vars /\ WF_vars(LexNext)

(***************************************************************************)
(* Properties of parse_expr: precedence and associativity                  *)
(***************************************************************************)
LoOps == {"PLUS", "MINUS"}
HiOps == {"STAR", "SLASH"}

\* the token kinds of `return t1 op1 t2 op2 t3`
ThreeTerm(t1, op1, t2, op2, t3) ==
    <<"RETURN">> \o t1 \o <<op1>> \o t2 \o <<op2>> \o t3

\* parse_prog has run to its end on a directly built token vector that is
\* `return` and three operands joined by two operators
ExprRunEnded ==
    /\ lexState = "none"
    /\ pState \in {"returned", "exit"}
    /\ Len(tokens) >= 6
    /\ tokens[1].type = "RETURN"
    /\ Kinds(tokens) \in ThreeTermInputs

\* the operand whose tokens are the piece t at cursor i: the node equals
\* the Term that parse_term builds there, using up exactly the piece
IsTermAt(var, i, t) ==
    /\ parse_term(tokens, i).st = "node"
    /\ parse_term(tokens, i).idx = i + Len(t)
    /\ var = parse_term(tokens, i).node

\* the program is the single statement `return e` with e a binary node
ReturnsBin(kind) ==
    /\ pState = "returned"
    /\ Len(prog) = 1
    /\ prog[1].k = "StmtReturn"
    /\ prog[1].expr.k = "Expr"
    /\ prog[1].expr.var.k = kind

\* e is the binary node `kind` over the operands t1 at cursor i and t2 at
\* cursor j
BinOver(e, kind, i, t1, j, t2) ==
    /\ e.k = "Expr"
    /\ e.var.k = kind
    /\ IsTermAt(e.var.lside.var, i, t1)
    /\ IsTermAt(e.var.rside.var, j, t2)

\* C1: precedence.  For all terms t1, t2, t3, lo in {+, -} and hi in {*, /}:
\* `t1 lo t2 hi t3` parses to lo(t1, hi(t2, t3)), and `t1 hi t2 lo t3`
\* parses to lo(hi(t1, t2), t3).
C1_Precedence ==
    ExprRunEnded =>
        \A t1 \in TermPieces, t2 \in TermPieces, t3 \in TermPieces,
           lo \in LoOps, hi \in HiOps :
            LET i1 == 1
                i2 == i1 + Len(t1) + 1
                i3 == i2 + Len(t2) + 1
            IN  /\ Kinds(tokens) = ThreeTerm(t1, lo, t2, hi, t3) =>
                    /\ ReturnsBin(BinKind(lo))
                    /\ IsTermAt(prog[1].expr.var.lside.var, i1, t1)
                    /\ BinOver(prog[1].expr.var.rside, BinKind(hi),
                               i2, t2, i3, t3)
                /\ Kinds(tokens) = ThreeTerm(t1, hi, t2, lo, t3) =>
                    /\ ReturnsBin(BinKind(lo))
                    /\ BinOver(prog[1].expr.var.lside, BinKind(hi),
                               i1, t1, i2, t2)
                    /\ IsTermAt(prog[1].expr.var.rside.var, i3, t3)

\* `return 1 + 1 * 1` has been parsed to Add(1, Mul(1, 1))
C1_Witness ==
    /\ pState = "returned"
    /\ Kinds(tokens) = <<"RETURN", "INTEGER_LITERAL", "PLUS",
                         "INTEGER_LITERAL", "STAR", "INTEGER_LITERAL">>
    /\ prog[1].expr.var.k = "BinExprAdd"
    /\ prog[1].expr.var.rside.var.k = "BinExprMulti"

\* C2: associativity.  For all terms t1, t2, t3 and operators op1, op2 of
\* the same precedence level, `t1 op1 t2 op2 t3` parses to
\* op2(op1(t1, t2), t3).
C2_Associativity ==
    ExprRunEnded =>
        \A t1 \in TermPieces, t2 \in TermPieces, t3 \in TermPieces,
           level \in {LoOps, HiOps} :
            \A op1 \in level, op2 \in level :
                LET i1 == 1
                    i2 == i1 + Len(t1) + 1
                    i3 == i2 + Len(t2) + 1
                IN  Kinds(tokens) = ThreeTerm(t1, op1, t2, op2, t3) =>
                        /\ ReturnsBin(BinKind(op2))
                        /\ BinOver(prog[1].expr.var.lside, BinKind(op1),
                                   i1, t1, i2, t2)
                        /\ IsTermAt(prog[1].expr.var.rside.var, i3, t3)

\* `return a - 1 - 1` has been parsed to Sub(Sub(a, 1), 1)
C2_Witness ==
    /\ pState = "returned"
    /\ Kinds(tokens) = <<"RETURN", "IDENTIFIER", "MINUS",
                         "INTEGER_LITERAL", "MINUS", "INTEGER_LITERAL">>
    /\ prog[1].expr.var.k = "BinExprSub"
    /\ prog[1].expr.var.lside.var.k = "BinExprSub"
    /\ prog[1].expr.var.rside.var.k = "Term"

(***************************************************************************)
(* Properties of the type tags of expressions                              *)
(***************************************************************************)
\* NONE joined with T is T, INT joined with INT is INT
Join(a, b) == IF a = "NONE" THEN b ELSE a

\* parse_prog has run to its end on a directly built token vector
RunEnded == lexState = "none" /\ pState \in {"returned", "exit"}

\* the type tag of the operand that parse_term builds at cursor i
OperandType(i) == parse_term(tokens, i).node.type

\* C3 as the specification states it: one fold `t1 op t2` with operand types L
\* and R, at least one of them NONE, succeeds and the resulting expression
\* has the other operand's type.
C3_OtherOperandType ==
    RunEnded =>
        \A t1 \in TermPieces, t2 \in TermPieces, op \in BinOps :
            (/\ Kinds(tokens) = <<"RETURN">> \o t1 \o <<op>> \o t2
             /\ OperandType(1) = "NONE" \/ OperandType(2 + Len(t1)) = "NONE")
            => /\ pState = "returned"
               /\ prog[1].expr.type
                    = Join(OperandType(1), OperandType(2 + Len(t1)))

\* C3, what parse_expr does: the fold succeeds and the expression keeps the
\* type tag of its left operand, whatever the right operand's type is.
C3_LeftOperandType ==
    RunEnded =>
        \A t1 \in TermPieces, t2 \in TermPieces, op \in BinOps :
            (/\ Kinds(tokens) = <<"RETURN">> \o t1 \o <<op>> \o t2
             /\ OperandType(1) = "NONE" \/ OperandType(2 + Len(t1)) = "NONE")
            => /\ pState = "returned"
               /\ prog[1].expr.type = OperandType(1)

\* `return a + 1` has been parsed: NONE folded with INT is tagged NONE
C3_Witness ==
    /\ pState = "returned"
    /\ Kinds(tokens) = <<"RETURN", "IDENTIFIER", "PLUS", "INTEGER_LITERAL">>
    /\ prog[1].expr.var.k = "BinExprAdd"
    /\ prog[1].expr.var.rside.type = "INT"
    /\ prog[1].expr.type = "NONE"

BinKinds == {"BinExprAdd", "BinExprSub", "BinExprMulti", "BinExprDiv"}

RECURSIVE JoinOf(_)
\* the join of the types of all terms an Expr, Term or BinExpr contains
JoinOf(n) ==
    CASE n.k = "Expr" -> JoinOf(n.var)
      [] n.k = "Term" ->
            IF n.var.k = "TermParen" THEN JoinOf(n.var.expr) ELSE n.type
      [] OTHER -> Join(JoinOf(n.lside), JoinOf(n.rside))

RECURSIVE LeftTerm(_)
\* the leftmost operand of an Expr at its own nesting level
LeftTerm(e) == IF e.var.k = "Term" THEN e.var ELSE LeftTerm(e.var.lside)

TypedByJoin(e) == e.type = JoinOf(e)

TypedAsBuilt(e, lside) ==
    e.type = IF lside THEN "NONE" ELSE LeftTerm(e).type

\* the typing rule named `rule` holds of the Expr e; lside tells whether e
\* is the left operand of a binary node
Typed(e, lside, rule) ==
    IF rule = "join" THEN TypedByJoin(e) ELSE TypedAsBuilt(e, lside)

RECURSIVE EveryExpr(_, _, _)
\* the typing rule holds of every Expr node reachable from node n
EveryExpr(n, lside, rule) ==
    CASE n.k = "Expr" ->
            Typed(n, lside, rule) /\ EveryExpr(n.var, FALSE, rule)
      [] n.k = "Term" ->
            n.var.k = "TermParen" => EveryExpr(n.var.expr, FALSE, rule)
      [] n.k \in BinKinds ->
            EveryExpr(n.lside, TRUE, rule) /\ EveryExpr(n.rside, FALSE, rule)
      [] n.k \in {"StmtReturn", "StmtVar", "StmtVarAssign"} ->
            EveryExpr(n.expr, FALSE, rule)
      [] n.k = "Scope" ->
            \A j \in 1..Len(n.stmts) : EveryExpr(n.stmts[j], FALSE, rule)
      [] n.k \in {"StmtIf", "IfPredElif"} ->
            /\ EveryExpr(n.expr, FALSE, rule)
            /\ EveryExpr(n.scope, FALSE, rule)
            /\ EveryExpr(n.pred, FALSE, rule)
      [] n.k = "IfPredElse" -> EveryExpr(n.scope, FALSE, rule)
      [] OTHER -> TRUE

\* C4 as the specification states it: in every returned Program every Expr
\* node carries the join of the types of all terms it contains.
C4_ExprTypeIsJoin ==
    pState = "returned" =>
        \A j \in 1..Len(prog) : EveryExpr(prog[j], FALSE, "join")

\* C4, what the parser builds: an Expr carries the type of its leftmost
\* operand, except that the left operand of a binary node, built from the
\* variant alone, carries NONE.
C4_ExprTypeAsBuilt ==
    pState = "returned" =>
        \A j \in 1..Len(prog) : EveryExpr(prog[j], FALSE, "built")

\* `return 1 + 1` has been parsed: the left operand Expr of the Add node
\* holds an INT term and is tagged NONE
C4_Witness ==
    /\ pState = "returned"
    /\ Kinds(tokens) = <<"RETURN", "INTEGER_LITERAL", "PLUS", "INTEGER_LITERAL">>
    /\ prog[1].expr.var.lside.var.type = "INT"
    /\ prog[1].expr.var.lside.type = "NONE"

(***************************************************************************)
(* Properties of the tokenizer's line numbers                              *)
(***************************************************************************)
\* the number of newline characters among the first n characters of s
Newlines(s, n) == Cardinality({j \in 1..n : s[j] = "\n"})

RECURSIVE StartsFrom(_)
\* the 0-based positions of the first characters of the tokens pushed from
\* a scan state on, in order
StartsFrom(st) ==
    IF st.st # "scan" THEN <<>>
    ELSE (IF Len(LexStep(st).toks) > Len(st.toks) THEN <<st.idx>> ELSE <<>>)
             \o StartsFrom(LexStep(st))

TokenStarts(s) == StartsFrom(LexSt(s, 0, 1, <<>>, "scan", NoLexErr))

\* every token pushed so far, the error if there is one, and the counter
\* itself are at 1 + the number of newlines before their position
LinesCountNewlines ==
    /\ \A k \in 1..Len(lexTokens) :
           lexTokens[k].line = 1 + Newlines(src, TokenStarts(src)[k])
    /\ lexState = "exit" => lexErr.line = 1 + Newlines(src, t_index)
    /\ lexState = "scan" => line_count = 1 + Newlines(src, t_index)

\* s holds the opening of a block comment somewhere
HasBlockOpen(s) == \E j \in 1..(Len(s) - 1) : s[j] = "/" /\ s[j + 1] = "*"

\* C5 as the specification states it: for every source text, each token's
\* and each lexical error's line number is 1 + the number of newlines that
\* precede it, wherever the newlines occur (white space, the end of a line
\* comment, inside a block comment).
C5_LineIsNewlinesBefore ==
    lexState \in {"scan", "returned", "exit"} => LinesCountNewlines

\* C5, what tokenize does: the line numbers count the newlines before the
\* position in every source text that opens no block comment.
C5_LineOutsideBlockComments ==
    (lexState \in {"scan", "returned", "exit"} /\ ~HasBlockOpen(src))
        => LinesCountNewlines

\* a token on line 2 after a line comment and its newline
C5_Witness ==
    /\ lexState = "returned"
    /\ src = <<"/", "/", "\n", "a">>
    /\ lexTokens = <<Token("IDENTIFIER", 2, <<"a">>)>>

(***************************************************************************)
(* Properties of if / elif / else chains.  Positions are 1-based; in a      *)
(* directly built token vector the token at position n is on line n.       *)
(***************************************************************************)
RECURSIVE Match(_, _, _, _, _)
\* the position of the closer that brings the nesting depth to 0, scanning
\* from position n on; 0 if there is none
Match(toks, n, depth, open, close) ==
    IF n > Len(toks) THEN 0
    ELSE IF toks[n].type = open THEN Match(toks, n + 1, depth + 1, open, close)
    ELSE IF toks[n].type = close
    THEN IF depth = 1 THEN n ELSE Match(toks, n + 1, depth - 1, open, close)
    ELSE Match(toks, n + 1, depth, open, close)

\* the position of the closer matching the opener at position n
MatchClose(toks, n, open, close) == Match(toks, n + 1, 1, open, close)

CloseParen(toks, n) ==
    MatchClose(toks, n, "LEFT_PARENTHESIS", "RIGHT_PARENTHESIS")
CloseBrace(toks, n) ==
    MatchClose(toks, n, "LEFT_CURLY_BACKET", "RIGHT_CURLY_BRACKET")

TypeAt(toks, n) == IF n \in 1..Len(toks) THEN toks[n].type ELSE "nullopt"

RECURSIVE ClausesFrom(_, _)
\* the clauses written from position q on, q being the position after the
\* `}` of an if or elif block: each elif with the position of its
\* condition, then an else if there is one
ClausesFrom(toks, q) ==
    IF TypeAt(toks, q) = "ELIF"
    THEN LET r == CloseParen(toks, q + 1)
             c == CloseBrace(toks, r + 1)
         IN  IF r = 0 \/ c = 0 THEN <<[kind |-> "unclosed", cond |-> q + 2]>>
             ELSE <<[kind |-> "elif", cond |-> q + 2]>> \o ClausesFrom(toks, c + 1)
    ELSE IF TypeAt(toks, q) = "ELSE"
    THEN <<[kind |-> "else", cond |-> 0]>>
    ELSE <<>>

RECURSIVE FirstTok(_)
\* the position of the first token of an expression
FirstTok(e) ==
    CASE e.k = "Expr" -> FirstTok(e.var)
      [] e.k = "Term" ->
            CASE e.var.k = "TermIntegerLiteral" -> e.var.int_lit.line
              [] e.var.k = "TermIdentifier" -> e.var.ident.line
              [] OTHER -> FirstTok(e.var.expr) - 1
      [] OTHER -> FirstTok(e.lside)

RECURSIVE ChainOf(_)
\* the links of a predicate chain: StmtIf.pred followed through
\* IfPredElif.pred
ChainOf(pred) ==
    CASE pred.k = "IfPredElif" ->
            <<[kind |-> "elif", cond |-> FirstTok(pred.expr)]>>
                \o ChainOf(pred.pred)
      [] pred.k = "IfPredElse" -> <<[kind |-> "else", cond |-> 0]>>
      [] OTHER -> <<>>

\* the chain of the If statement n is the clauses written after its block
IfChainAsWritten(n) ==
    LET c1 == FirstTok(n.expr)
        r == CloseParen(tokens, c1 - 1)
        c == CloseBrace(tokens, r + 1)
    IN  /\ TypeAt(tokens, c1 - 2) = "IF"
        /\ r # 0 /\ c # 0
        /\ ChainOf(n.pred) = ClausesFrom(tokens, c + 1)

\* at most one else link, and only as the last link
ElseOnlyLast(chain) ==
    \A k \in 1..Len(chain) : chain[k].kind = "else" => k = Len(chain)

RECURSIVE EveryIf(_)
\* every If statement reachable from node n has the chain that is written
EveryIf(n) ==
    CASE n.k = "StmtIf" ->
            /\ IfChainAsWritten(n)
            /\ ElseOnlyLast(ChainOf(n.pred))
            /\ EveryIf(n.scope)
            /\ EveryIf(n.pred)
      [] n.k = "Scope" -> \A j \in 1..Len(n.stmts) : EveryIf(n.stmts[j])
      [] n.k = "IfPredElif" -> EveryIf(n.scope) /\ EveryIf(n.pred)
      [] n.k = "IfPredElse" -> EveryIf(n.scope)
      [] OTHER -> TRUE

RECURSIVE NumIfs(_)
\* the number of If statements reachable from node n
NumIfs(n) ==
    CASE n.k = "StmtIf" -> 1 + NumIfs(n.scope) + NumIfs(n.pred)
      [] n.k = "Scope" ->
            IF n.stmts = <<>> THEN 0
            ELSE NumIfs(Head(n.stmts)) + NumIfs(Scope(Tail(n.stmts)))
      [] n.k = "IfPredElif" -> NumIfs(n.scope) + NumIfs(n.pred)
      [] n.k = "IfPredElse" -> NumIfs(n.scope)
      [] OTHER -> 0

\* an `elif` or `else` token follows the closing brace of an `else { ... }`
ClauseAfterElse(toks) ==
    \E n \in 1..Len(toks) :
        /\ toks[n].type = "ELSE"
        /\ TypeAt(toks, n + 1) = "LEFT_CURLY_BACKET"
        /\ CloseBrace(toks, n + 1) # 0
        /\ TypeAt(toks, CloseBrace(toks, n + 1) + 1) \in {"ELIF", "ELSE"}

\* C6: on every token vector that parse_prog accepts, each `if` token has
\* its If statement, whose chain is the elif clauses written after it in
\* source order followed by the else clause if one is written, an Else link
\* being the last; an `elif` or `else` after an `else { ... }` block makes
\* the parser exit with a "missing ..." error.
C6_IfChainShape ==
    RunEnded =>
        /\ pState = "returned" =>
              /\ EveryIf(Scope(prog))
              /\ NumIfs(Scope(prog))
                   = Cardinality({n \in 1..Len(tokens) : tokens[n].type = "IF"})
        /\ ClauseAfterElse(tokens) =>
              pState = "exit" /\ pErr.tmpl = "missing"

\* `if (a) {} elif (a) {} else {}` has been parsed: one Elif link followed
\* by one Else link
C6_Witness ==
    /\ pState = "returned"
    /\ Kinds(tokens) = IfHead
          \o <<"ELIF", "LEFT_PARENTHESIS", "IDENTIFIER", "RIGHT_PARENTHESIS",
               "LEFT_CURLY_BACKET", "RIGHT_CURLY_BRACKET">>
          \o <<"ELSE", "LEFT_CURLY_BACKET", "RIGHT_CURLY_BRACKET">>
    /\ Len(prog) = 1
    /\ ChainOf(prog[1].pred)
         = <<[kind |-> "elif", cond |-> 9], [kind |-> "else", cond |-> 0]>>

(***************************************************************************)
(* Properties of parse_prog: statement sequences                           *)
(***************************************************************************)
RECURSIVE SumLen(_, _)
\* the number of tokens of the first n pieces of ps
SumLen(ps, n) == IF n = 0 THEN 0 ELSE SumLen(ps, n - 1) + Len(ps[n])

\* the alternative of Node::Stmt that a statement starting with the given
\* token kind is
StmtKindOf(first) ==
    CASE first = "RETURN" -> "StmtReturn"
      [] first = "VAR" -> "StmtVar"
      [] first = "IDENTIFIER" -> "StmtVarAssign"
      [] first = "LEFT_CURLY_BACKET" -> "Scope"
      [] first = "IF" -> "StmtIf"

\* the number of statements written directly inside the braces of a piece
\* that is a Scope
WrittenInScope(piece) == IF Len(piece) = 2 THEN 0 ELSE 2

\* C7: on a token vector that is the concatenation of N grammatical
\* top-level statements parse_prog returns N statements, the i-th being the
\* statement that the i-th statement's tokens parse to on their own, with
\* the cursor at the number of tokens; the statements written inside a
\* Scope are in that Scope's list.
C7_StatementSequence ==
    (RunEnded /\ Kinds(tokens) \in StmtInputs) =>
        \A ps \in StmtSeqs :
            Kinds(tokens) = Flatten(ps) =>
                /\ pState = "returned"
                /\ Len(prog) = Len(ps)
                /\ p_index = Len(tokens)
                /\ \A n \in 1..Len(ps) :
                       LET own == SubSeq(tokens, SumLen(ps, n - 1) + 1,
                                         SumLen(ps, n))
                       IN  /\ parse_stmt(own, 0).st = "node"
                           /\ parse_stmt(own, 0).idx = Len(own)
                           /\ prog[n] = parse_stmt(own, 0).node
                           /\ prog[n].k = StmtKindOf(Head(ps[n]))
                           /\ prog[n].k = "Scope" =>
                                  Len(prog[n].stmts) = WrittenInScope(ps[n])

\* `return 1  { return a  a = 1 }  var a = a` has been parsed to three
\* statements in this order, the Scope holding two
C7_Witness ==
    /\ pState = "returned"
    /\ Len(prog) = 3
    /\ p_index = Len(tokens)
    /\ p_index = 13
    /\ prog[1].k = "StmtReturn"
    /\ prog[2].k = "Scope"
    /\ Len(prog[2].stmts) = 2
    /\ prog[3].k = "StmtVar"

(***************************************************************************)
(* Properties of the parser's error exits                                  *)
(***************************************************************************)
TermStarts == {"INTEGER_LITERAL", "IDENTIFIER", "LEFT_PARENTHESIS"}

\* the item named by the message is not what the token of kind `type` (or
\* the end of the tokens, "nullopt") provides
ReportedItemMissing(msg, type) ==
    CASE msg \in {"(", ")", "}"} -> to_string(type) # msg
      [] msg \in {"expression", "return value"} -> type \notin TermStarts
      [] msg = "scope" -> type # "LEFT_CURLY_BACKET"
      [] msg = "statement" ->
            type \notin {"RETURN", "LEFT_CURLY_BACKET", "IF", "nullopt"}
      [] OTHER -> FALSE

\* C8: every error exit of the parser names an expected item that is missing
\* at the read cursor and reports the line of the token at the cursor or,
\* with the cursor at the end of the tokens, of the token at cursor - 1;
\* that token exists: with no next token the cursor is at least 1.
C8_ExitLine ==
    pState = "exit" =>
        /\ pErr.tmpl = "missing"
        /\ ReportedItemMissing(pErr.msg, TypeAt(tokens, p_index + 1))
        /\ ~pErr.bad_access
        /\ p_index <= Len(tokens)
        /\ p_index < Len(tokens) => pErr.line = tokens[p_index + 1].line
        /\ p_index = Len(tokens) =>
              p_index >= 1 /\ pErr.line = tokens[p_index].line

\* an exit with the cursor at the end of at least two tokens, reporting the
\* last token's line
C8_Witness ==
    /\ pState = "exit"
    /\ p_index = Len(tokens)
    /\ p_index >= 2
    /\ pErr.line = tokens[p_index].line
    /\ pErr.line # tokens[1].line

(***************************************************************************)
(* Properties of the fatal paths                                           *)
(***************************************************************************)
\* a `(` at position n followed by an expression that no `)` follows
ParenNotClosed(toks, n) ==
    /\ toks[n].type = "LEFT_PARENTHESIS"
    /\ parse_expr(toks, n, 0).st = "node"
    /\ TypeAt(toks, parse_expr(toks, n, 0).idx + 1) # "RIGHT_PARENTHESIS"

\* a binary operator at position n that no expression follows
OperatorWithoutOperand(toks, n) ==
    /\ toks[n].type \in BinOps
    /\ TypeAt(toks, n + 1) \notin TermStarts

\* `if (Expr)` or `elif (Expr)` at position n, or `else`, that no `{`
\* follows
BlockNotOpened(toks, n) ==
    \/ /\ toks[n].type \in {"IF", "ELIF"}
       /\ TypeAt(toks, n + 1) = "LEFT_PARENTHESIS"
       /\ parse_expr(toks, n + 1, 0).st = "node"
       /\ TypeAt(toks, parse_expr(toks, n + 1, 0).idx + 1) = "RIGHT_PARENTHESIS"
       /\ TypeAt(toks, parse_expr(toks, n + 1, 0).idx + 2) # "LEFT_CURLY_BACKET"
    \/ /\ toks[n].type = "ELSE"
       /\ TypeAt(toks, n + 1) # "LEFT_CURLY_BACKET"

ParserDefect(toks) ==
    \E n \in 1..Len(toks) :
        \/ ParenNotClosed(toks, n)
        \/ OperatorWithoutOperand(toks, n)
        \/ BlockNotOpened(toks, n)

\* the scan stands on a character that starts no token, or on a quote
\* followed by an alphanumeric character and no closing quote
LexDefectAt(s, i) ==
    \/ Branch(s, i) = "invalid"
    \/ /\ Branch(s, i) = "char_literal"
       /\ tpeek(s, i, 1) # NoChar
       /\ isalnum(tpeek(s, i, 1))
       /\ tpeek(s, i, 2) # "'"

RECURSIVE DefectReached(_)
\* the scan from state st on comes to stand on such a character
DefectReached(st) ==
    /\ st.st = "scan"
    /\ LexDefectAt(st.src, st.idx) \/ DefectReached(LexStep(st))

LexDefect(s) == DefectReached(LexSt(s, 0, 1, <<>>, "scan", NoLexErr))

\* C9: a `(` Expr without `)`, an operator without a following expression,
\* an if/elif condition or an else without `{` never let parse_prog return:
\* the run ends in the error exit; a character that starts no token and an
\* unterminated char literal never let tokenize return: the scan ends in
\* the error exit and no Parser is built.
C9_FatalPaths ==
    /\ pState = "returned" => ~ParserDefect(tokens)
    /\ (lexState # "none" /\ LexDefect(src)) =>
          /\ lexState \in {"scan", "exit"}
          /\ pState = "idle"
          /\ tokens = <<>>
    /\ (lexState = "exit" /\ lexErr.msg \in {"invalid token", "expected '"})
          => LexDefect(src)

\* `return ( 1` then a token that is not `)`: the parser has exited with
\* "missing )"
C9_Witness ==
    /\ pState = "exit"
    /\ pErr.msg = ")"
    /\ \E n \in 1..Len(tokens) : ParenNotClosed(tokens, n)
    /\ prog = <<>>

(***************************************************************************)
(* Properties of tokenize under inserted and removed white space and       *)
(* comments                                                                *)
(***************************************************************************)
\* a space, a blank line, a line comment with its newline, a block comment
Fillers ==
    {<<" ">>, <<"\n">>, <<"/", "/", "a", "\n">>, <<"/", "*", "a", "*", "/">>}

\* s with f put in after its first p characters
Insert(s, p, f) == SubSeq(s, 1, p) \o f \o SubSeq(s, p + 1, Len(s))

\* s without its characters p .. q-1 (0-based)
Remove(s, p, q) == SubSeq(s, 1, p) \o SubSeq(s, q + 1, Len(s))

\* kinds and payloads of a token sequence, the line numbers left out
KindsAndPayloads(toks) ==
    [n \in 1..Len(toks) |-> [type |-> toks[n].type, val |-> toks[n].val]]

\* tokenize succeeds on s2 with the kinds and payloads it yields on src
SameTokens(s2) ==
    /\ tokenize(s2).st = "returned"
    /\ KindsAndPayloads(tokenize(s2).toks)
         = KindsAndPayloads(tokenize(src).toks)

\* the scan stands between two adjacent tokens of a source that tokenize
\* accepts: a token has been pushed and another one follows
BetweenTokens ==
    /\ lexState = "scan"
    /\ tokenize(src).st = "returned"
    /\ lexTokens # <<>>
    /\ Len(tokenize(src).toks) > Len(lexTokens)

\* the item at the cursor is white space or a comment
AtFiller ==
    Branch(src, t_index) \in {"space", "newline", "line_comment", "block_comment"}

\* the source without the white-space character or comment at the cursor
WithoutFiller == Remove(src, t_index, LexStep(LexCur).idx)

\* the token pushed last is a `/` that ends right at the cursor
AfterSlashToken ==
    /\ lexTokens # <<>>
    /\ lexTokens[Len(lexTokens)].type = "SLASH"
    /\ TokenStarts(src)[Len(lexTokens)] = t_index - 1

RECURSIVE StandsAt(_, _)
\* the scan from state st on comes to start an item at position p
StandsAt(st, p) ==
    /\ st.st = "scan"
    /\ st.idx <= p
    /\ st.idx = p \/ StandsAt(LexStep(st), p)

\* in s the scanner starts an item at position p
ItemStartsAt(s, p) == StandsAt(LexSt(s, 0, 1, <<>>, "scan", NoLexErr), p)

UnterminatedBlockComment ==
    /\ Branch(src, t_index) = "block_comment"
    /\ ~\E j \in (t_index + 3)..(Len(src) - 1) :
           src[j] = "*" /\ src[j + 1] = "/"

\* one step of tokenize taken from a scan state: it goes on scanning with
\* the cursor at least one character further and within the source, or it
\* returns the tokens with the whole source consumed and no error, or it
\* exits with a diagnostic
ScanStep ==
    lexState = "scan" =>
        /\ lexState' \in {"scan", "returned", "exit"}
        /\ lexState' = "scan" =>
              /\ t_index < t_index'
              /\ t_index' <= Len(src)
              /\ lexErr' = NoLexErr
        /\ lexState' = "returned" =>
              /\ t_index = Len(src)
              /\ lexTokens' = lexTokens
              /\ lexErr' = NoLexErr
        /\ lexState' = "exit" =>
              /\ t_index' <= Len(src)
              /\ lexErr'.msg # ""
        /\ UnterminatedBlockComment =>
              /\ lexState' = "scan"
              /\ t_index' = Len(src)
              /\ lexTokens' = lexTokens

\* the cursor is within the source, the tokens are no more than the
\* characters consumed, and a scan that stands on an unterminated block
\* comment ends by returning the tokens pushed so far
ScanBounded ==
    lexState # "none" =>
        /\ t_index \in 0..Len(src)
        /\ Len(lexTokens) <= Len(src)
        /\ lexState = "scan" => Len(lexTokens) <= t_index
        /\ (lexState = "scan" /\ UnterminatedBlockComment) =>
              /\ tokenize(src).st = "returned"
              /\ tokenize(src).toks = lexTokens
              /\ tokenize(src).err = NoLexErr
        /\ lexState \in {"returned", "exit"} => tokenize(src).st = lexState

\* C11: tokenize is total.  Every iteration of its loop moves the cursor
\* forward by at least one character and never past the end of the source,
\* so the scan stops after at most Len(src) iterations, by returning with
\* the whole source consumed or by a lexical error; an unterminated block
\* comment at the end of the source ends the scan without error and the
\* tokens before it are returned.
C11_TokenizeTotal ==
    /\ [][ScanStep]_vars
    /\ []ScanBounded
    /\ <>(lexState \in {"returned", "exit"})

\* tokenize has returned the token before an unterminated block comment
C11_Witness ==
    /\ lexState = "returned"
    /\ src = <<"a", "/", "*", "\n">>
    /\ lexTokens = <<Token("IDENTIFIER", 1, <<"a">>)>>
    /\ lexErr = NoLexErr

(***************************************************************************)
(* Properties of the productions: no backtracking                          *)
(***************************************************************************)
\* the calls of the member functions that return an optional node, with
\* the values of min_prec that parse_expr is called with
ProductionCalls ==
    {[f |-> "parse_term", arg |-> 0], [f |-> "parse_scope", arg |-> 0],
     [f |-> "parse_if_pred", arg |-> 0], [f |-> "parse_stmt", arg |-> 0],
     [f |-> "parse_expr", arg |-> 0], [f |-> "parse_expr", arg |-> 1],
     [f |-> "parse_expr", arg |-> 2]}

\* the result r of a call at cursor i leaves the cursor where it was when
\* it is nothing, has moved it forward when it is a node, and has never
\* moved it backward or past the end
CursorCommits(toks, i, r) ==
    /\ r.idx \in i..Len(toks)
    /\ r.st = "absent" => r.idx = i
    /\ r.st = "node" => r.idx > i

\* the cursors at which the calls are looked at: every cursor of the token
\* vector; in an operator/operand run after `return` the cursors 0 and 1,
\* what follows a later cursor being the run of another input
CallCursors(toks) ==
    IF Kinds(toks) \in ExprInputs THEN {0, 1} ELSE 0..Len(toks)

\* C12: no backtracking.  A production that returns nothing has left the
\* read cursor where it was at the call (so `var` without identifier and
\* `=`, or an identifier without `=`, consume nothing), and a production
\* that has consumed a token returns a node or exits.
C12_NoBacktracking ==
    /\ pState \in {"returned", "exit"} =>
          \A i \in CallCursors(tokens), c \in ProductionCalls :
              \A r \in {call(c.f, tokens, i, c.arg)} :
                  CursorCommits(tokens, i, r)
    /\ (pState = "exit" /\ pErr.msg = "statement") =>
          /\ parse_stmt(tokens, p_index).st = "absent"
          /\ parse_stmt(tokens, p_index).idx = p_index

\* after `{ }` the statement that starts with `var` and has no identifier
\* is not parsed: parse_stmt has returned nothing with the cursor on `var`
C12_Witness ==
    /\ pState = "exit"
    /\ pErr.msg = "statement"
    /\ p_index = 2
    /\ Len(prog) = 1
    /\ tokens[3].type = "VAR"
    /\ parse_stmt(tokens, 2) = Absent(2)

(***************************************************************************)
(* C13: the operand check of parse_expr never fails                        *)
(***************************************************************************)
\* enum VarType
VarTypes == {"NONE", "INT"}

\* the diagnostics of the exits that report a missing token or production
MissingItems ==
    {to_string("LEFT_PARENTHESIS"), to_string("RIGHT_PARENTHESIS"),
     to_string("RIGHT_CURLY_BRACKET"),
     "expression", "return value", "scope", "statement"}

RECURSIVE TagOf(_)
\* the type tag a Term has by what it is: INT for an integer literal, NONE
\* for an identifier, the tag of its first term for a parenthesised expression
TagOf(t) ==
    CASE t.var.k = "TermIntegerLiteral" -> "INT"
      [] t.var.k = "TermIdentifier" -> "NONE"
      [] OTHER -> TagOf(LeftTerm(t.var.expr))

RECURSIVE EveryOperand(_)
\* below node n every tag is NONE or INT, every Term carries the tag of what
\* it is, and the two types parse_expr compared at every binary node (the
\* type of the expression built so far, which is that of its first term, and
\* the type of the right operand) are not concrete and unequal
EveryOperand(n) ==
    CASE n.k = "Expr" -> n.type \in VarTypes /\ EveryOperand(n.var)
      [] n.k = "Term" ->
            /\ n.type \in VarTypes
            /\ n.type = TagOf(n)
            /\ n.var.k = "TermParen" => EveryOperand(n.var.expr)
      [] n.k \in BinKinds ->
            /\ ~type_mismatch(LeftTerm(n.lside).type, n.rside.type)
            /\ EveryOperand(n.lside)
            /\ EveryOperand(n.rside)
      [] n.k \in {"StmtReturn", "StmtVar", "StmtVarAssign"} ->
            EveryOperand(n.expr)
      [] n.k = "Scope" ->
            \A j \in 1..Len(n.stmts) : EveryOperand(n.stmts[j])
      [] n.k \in {"StmtIf", "IfPredElif"} ->
            /\ EveryOperand(n.expr)
            /\ EveryOperand(n.scope)
            /\ EveryOperand(n.pred)
      [] n.k = "IfPredElse" -> EveryOperand(n.scope)
      [] OTHER -> TRUE

\* C13: the `wrong operation :` exit of parse_expr is never taken.  Every
\* exit of the parser reports a missing token or production, and in every
\* statement parsed the terms carry NONE (identifier) or INT (integer
\* literal, or parenthesised expression whose first term is INT), so that no
\* two operands compared are both concrete and unequal.
C13_NoTypeMismatchExit ==
    /\ pState = "exit" =>
          /\ pErr.tmpl = "missing"
          /\ pErr.msg \in MissingItems
    /\ pState \in {"returned", "exit"} =>
          \A j \in 1..Len(prog) : EveryOperand(prog[j])

\* `return ( 1 + a ) * 1` has been parsed: both operands of the product are
\* INT, the left one a parenthesised expression whose first term is INT
C13_Witness ==
    /\ pState = "returned"
    /\ Kinds(tokens) = <<"RETURN", "LEFT_PARENTHESIS", "INTEGER_LITERAL",
                         "PLUS", "IDENTIFIER", "RIGHT_PARENTHESIS", "STAR",
                         "INTEGER_LITERAL">>
    /\ Len(prog) = 1
    /\ prog[1].expr.var.k = "BinExprMulti"
    /\ LeftTerm(prog[1].expr).var.k = "TermParen"
    /\ LeftTerm(prog[1].expr).type = "INT"
    /\ prog[1].expr.var.rside.type = "INT"

====
